---- MODULE Spec2Model ----
(***************************************************************************)
(* The Cursor contract of src/src/cursor.rs and its five implementations:  *)
(* the flat buffers &[u8] and &str, the forward-only Bytes and Utf8Bytes,  *)
(* and the bidirectional RopeyCursor over a ropey chunk iterator.          *)
(*                                                                         *)
(* A byte chunk is a sequence of bytes; a text chunk (&str) is a sequence  *)
(* of Unicode scalar values, turned into bytes by AsBytes.  A chunk        *)
(* iterator is a record [items, idx, steps]: idx items have been stepped   *)
(* over, and steps counts the next()/prev() calls made on it so far.       *)
(***************************************************************************)
EXTENDS Integers, Sequences, FiniteSets, TLC

VARIABLES kind, input, slice, iter, current, pos, at, calls, viaRef

vars == <<kind, input, slice, iter, current, pos, at, calls, viaRef>>

(* ------------------------------ bounds ------------------------------ *)

\* Longest chunk sequence a source yields.
MaxChunks == 3

\* Longest flat buffer, in bytes (&[u8]) or scalar values (&str).
MaxLen == 3

\* Longest sequence of advance/backtrack calls made on one cursor.
MaxCalls == 7

\* Longest sequence of calls looked at after a refused call when comparing
\* what a consumer can observe with and without that call.
MaxFollowing == 2

(* --------------------------- input domains -------------------------- *)

\* Text chunks: the empty chunk, an ASCII one, a two-byte scalar, a mixed one.
StrChunks == {<<>>, <<97>>, <<233>>, <<98, 233>>}

\* Raw byte chunks, cut anywhere (195 alone is half of a scalar value).
ByteChunks == {<<>>, <<97>>, <<195>>, <<169, 98>>}

RECURSIVE SeqsUpTo(_, _)
SeqsUpTo(S, n) ==
    IF n = 0 THEN {<<>>}
    ELSE LET shorter == SeqsUpTo(S, n - 1)
         IN  shorter \cup {Append(s, x) : s \in shorter, x \in S}

(* ----------------------------- helpers ------------------------------ *)

\* str::as_bytes / the bytes of a &str: the UTF-8 encoding of its scalars.
EncodeUtf8(c) ==
    IF c < 128 THEN <<c>>
    ELSE IF c < 2048 THEN <<192 + (c \div 64), 128 + (c % 64)>>
    ELSE <<224 + (c \div 4096), 128 + ((c \div 64) % 64), 128 + (c % 64)>>

RECURSIVE AsBytes(_)
AsBytes(s) ==
    IF s = <<>> THEN <<>> ELSE EncodeUtf8(Head(s)) \o AsBytes(Tail(s))

\* <[u8]>::is_empty / str::is_empty
IsEmpty(c) == Len(c) = 0

\* Iterator::next on a chunk iterator: None at the end, position unchanged.
IterNext(it) ==
    IF it.idx < Len(it.items)
    THEN [some |-> TRUE, item |-> it.items[it.idx + 1],
          iter |-> [it EXCEPT !.idx = @ + 1, !.steps = @ + 1]]
    ELSE [some |-> FALSE, item |-> <<>>, iter |-> [it EXCEPT !.steps = @ + 1]]

\* ropey::iter::Chunks::prev: None at the start, position unchanged.
IterPrev(it) ==
    IF it.idx > 0
    THEN [some |-> TRUE, item |-> it.items[it.idx],
          iter |-> [it EXCEPT !.idx = @ - 1, !.steps = @ + 1]]
    ELSE [some |-> FALSE, item |-> <<>>, iter |-> [it EXCEPT !.steps = @ + 1]]

NoIter == [items |-> <<>>, idx |-> 0, steps |-> 0]

\* The cursor value the operations act on (the fields of whichever variant).
Self == [slice |-> slice, iter |-> iter, current |-> current, pos |-> pos]

(* --------------------- impl Cursor for &[u8] ------------------------ *)

Slice_chunk(self) == self.slice

Slice_utf8_aware(self) == TRUE

\* Variant: the buffer is handed out once and then counts as consumed.
Slice_advance_Consumes(self) ==
    [ret |-> ~IsEmpty(self.slice), self |-> [self EXCEPT !.slice = <<>>]]

Slice_advance(self) == [ret |-> FALSE, self |-> self]

Slice_backtrack(self) == [ret |-> FALSE, self |-> self]

(* ---------------------- impl Cursor for &str ------------------------ *)

Str_chunk(self) == AsBytes(self.slice)

Str_utf8_aware(self) == TRUE

Str_advance(self) == [ret |-> FALSE, self |-> self]

Str_backtrack(self) == [ret |-> FALSE, self |-> self]

(* ------------------------------ Bytes ------------------------------- *)

Bytes_chunk(self) == self.current

\* Variant: the is_empty() test is missing, empty items are exposed.
Bytes_advance_KeepsEmpty(self) ==
    LET next == IterNext(self.iter)
    IN  IF ~next.some
        THEN [ret |-> FALSE, self |-> [self EXCEPT !.iter = next.iter]]
        ELSE [ret |-> TRUE,
              self |-> [self EXCEPT !.iter = next.iter, !.current = next.item]]

\* for next in self.iter.by_ref() { if next.is_empty() { continue; } ... }
RECURSIVE Bytes_advance(_)
Bytes_advance(self) ==
    LET next == IterNext(self.iter)
    IN  IF ~next.some
        THEN [ret |-> FALSE, self |-> [self EXCEPT !.iter = next.iter]]
        ELSE IF IsEmpty(next.item)
             THEN Bytes_advance([self EXCEPT !.iter = next.iter])
             ELSE [ret |-> TRUE,
                   self |-> [self EXCEPT !.iter = next.iter,
                                         !.current = next.item]]

\* Variant: backtrack() steps the iterator the way advance() does.
Bytes_backtrack_Steps(self) == Bytes_advance(self)

Bytes_backtrack(self) == [ret |-> FALSE, self |-> self]

\* Variant: the raw byte-chunk cursor reports what the other cursors report.
Bytes_utf8_aware_True(self) == TRUE

Bytes_utf8_aware(self) == FALSE

(* ---------------------------- Utf8Bytes ----------------------------- *)

Utf8Bytes_chunk(self) == self.current

\* Variant: running out of items is reported as a successful step.
RECURSIVE Utf8Bytes_advance_EndIsTrue(_)
Utf8Bytes_advance_EndIsTrue(self) ==
    LET next == IterNext(self.iter)
    IN  IF ~next.some
        THEN [ret |-> TRUE, self |-> [self EXCEPT !.iter = next.iter]]
        ELSE IF IsEmpty(next.item)
             THEN Utf8Bytes_advance_EndIsTrue([self EXCEPT !.iter = next.iter])
             ELSE [ret |-> TRUE,
                   self |-> [self EXCEPT !.iter = next.iter,
                                         !.current = AsBytes(next.item)]]

RECURSIVE Utf8Bytes_advance(_)
Utf8Bytes_advance(self) ==
    LET next == IterNext(self.iter)
    IN  IF ~next.some
        THEN [ret |-> FALSE, self |-> [self EXCEPT !.iter = next.iter]]
        ELSE IF IsEmpty(next.item)
             THEN Utf8Bytes_advance([self EXCEPT !.iter = next.iter])
             ELSE [ret |-> TRUE,
                   self |-> [self EXCEPT !.iter = next.iter,
                                         !.current = AsBytes(next.item)]]

Utf8Bytes_backtrack(self) == [ret |-> FALSE, self |-> self]

Utf8Bytes_utf8_aware(self) == TRUE

(* --------------------------- RopeyCursor ---------------------------- *)

\* Variant: the cursor is constructed with the marker at ChunkStart.
RopeyCursor_new_AtStart(it) ==
    LET first == IterNext(it)
    IN  [slice |-> <<>>,
         iter |-> first.iter,
         current |-> AsBytes(IF first.some THEN first.item ELSE <<>>),
         pos |-> "ChunkStart"]

\* RopeyCursor::new: iter.next().unwrap_or_default().as_bytes(), ChunkEnd.
RopeyCursor_new(it) ==
    LET first == IterNext(it)
    IN  [slice |-> <<>>,
         iter |-> first.iter,
         current |-> AsBytes(IF first.some THEN first.item ELSE <<>>),
         pos |-> "ChunkEnd"]

RopeyCursor_chunk(self) == self.current

\* Variant: the marker is flipped without the realigning next().
AdvanceRealign_NoStep(self) == [self EXCEPT !.pos = "ChunkEnd"]

\* Variant: the realigning next() is taken but the marker is not set.
AdvanceRealign_KeepsMarker(self) ==
    IF self.pos = "ChunkStart"
    THEN [self EXCEPT !.iter = IterNext(self.iter).iter]
    ELSE self

\* match self.pos { ChunkStart => { self.iter.next(); self.pos = ChunkEnd } .. }
AdvanceRealign(self) ==
    IF self.pos = "ChunkStart"
    THEN [self EXCEPT !.iter = IterNext(self.iter).iter, !.pos = "ChunkEnd"]
    ELSE self

\* Variant: the is_empty() test is missing, empty chunks are exposed.
AdvanceScan_KeepsEmpty(self) ==
    LET next == IterNext(self.iter)
    IN  IF ~next.some
        THEN [ret |-> FALSE, self |-> [self EXCEPT !.iter = next.iter]]
        ELSE [ret |-> TRUE,
              self |-> [self EXCEPT !.iter = next.iter,
                                    !.current = AsBytes(next.item)]]

\* Variant: an empty chunk ends the scan (break in place of continue).
AdvanceScan_StopsAtEmpty(self) ==
    LET next == IterNext(self.iter)
    IN  IF ~next.some
        THEN [ret |-> FALSE, self |-> [self EXCEPT !.iter = next.iter]]
        ELSE IF IsEmpty(next.item)
             THEN [ret |-> FALSE, self |-> [self EXCEPT !.iter = next.iter]]
             ELSE [ret |-> TRUE,
                   self |-> [self EXCEPT !.iter = next.iter,
                                         !.current = AsBytes(next.item)]]

\* for next in self.iter.by_ref() { ... }
RECURSIVE AdvanceScan(_)
AdvanceScan(self) ==
    LET next == IterNext(self.iter)
    IN  IF ~next.some
        THEN [ret |-> FALSE, self |-> [self EXCEPT !.iter = next.iter]]
        ELSE IF IsEmpty(next.item)
             THEN AdvanceScan([self EXCEPT !.iter = next.iter])
             ELSE [ret |-> TRUE,
                   self |-> [self EXCEPT !.iter = next.iter,
                                         !.current = AsBytes(next.item)]]

RopeyCursor_advance(self) == AdvanceScan(AdvanceRealign(self))

\* Variant: the marker is flipped without the realigning prev().
BacktrackRealign_NoStep(self) == [self EXCEPT !.pos = "ChunkStart"]

\* match self.pos { ChunkEnd => { self.iter.prev(); self.pos = ChunkStart } .. }
BacktrackRealign(self) ==
    IF self.pos = "ChunkEnd"
    THEN [self EXCEPT !.iter = IterPrev(self.iter).iter, !.pos = "ChunkStart"]
    ELSE self

\* Variant: the scan reports success when the iterator has nothing before.
RECURSIVE BacktrackScan_EndIsTrue(_)
BacktrackScan_EndIsTrue(self) ==
    LET prev == IterPrev(self.iter)
    IN  IF ~prev.some
        THEN [ret |-> TRUE, self |-> [self EXCEPT !.iter = prev.iter]]
        ELSE IF IsEmpty(prev.item)
             THEN BacktrackScan_EndIsTrue([self EXCEPT !.iter = prev.iter])
             ELSE [ret |-> TRUE,
                   self |-> [self EXCEPT !.iter = prev.iter,
                                         !.current = AsBytes(prev.item)]]

\* Variant: every chunk pulled is stored before it is tested for emptiness.
RECURSIVE BacktrackScan_StoresFirst(_)
BacktrackScan_StoresFirst(self) ==
    LET prev == IterPrev(self.iter)
        stored == [self EXCEPT !.iter = prev.iter,
                               !.current = AsBytes(prev.item)]
    IN  IF ~prev.some
        THEN [ret |-> FALSE, self |-> [self EXCEPT !.iter = prev.iter]]
        ELSE IF IsEmpty(prev.item) THEN BacktrackScan_StoresFirst(stored)
        ELSE [ret |-> TRUE, self |-> stored]

\* while let Some(prev) = self.iter.prev() { ... }
RECURSIVE BacktrackScan(_)
BacktrackScan(self) ==
    LET prev == IterPrev(self.iter)
    IN  IF ~prev.some
        THEN [ret |-> FALSE, self |-> [self EXCEPT !.iter = prev.iter]]
        ELSE IF IsEmpty(prev.item)
             THEN BacktrackScan([self EXCEPT !.iter = prev.iter])
             ELSE [ret |-> TRUE,
                   self |-> [self EXCEPT !.iter = prev.iter,
                                         !.current = AsBytes(prev.item)]]

RopeyCursor_backtrack(self) == BacktrackScan(BacktrackRealign(self))

RopeyCursor_utf8_aware(self) == TRUE

(* ------------------------ the Cursor trait -------------------------- *)

Chunk(k, self) ==
    CASE k = "Slice" -> Slice_chunk(self)
      [] k = "Str" -> Str_chunk(self)
      [] k = "Bytes" -> Bytes_chunk(self)
      [] k = "Utf8Bytes" -> Utf8Bytes_chunk(self)
      [] k = "RopeyCursor" -> RopeyCursor_chunk(self)

Utf8Aware(k, self) ==
    CASE k = "Slice" -> Slice_utf8_aware(self)
      [] k = "Str" -> Str_utf8_aware(self)
      [] k = "Bytes" -> Bytes_utf8_aware(self)
      [] k = "Utf8Bytes" -> Utf8Bytes_utf8_aware(self)
      [] k = "RopeyCursor" -> RopeyCursor_utf8_aware(self)

Advance(k, self) ==
    CASE k = "Slice" -> Slice_advance(self)
      [] k = "Str" -> Str_advance(self)
      [] k = "Bytes" -> Bytes_advance(self)
      [] k = "Utf8Bytes" -> Utf8Bytes_advance(self)
      [] k = "RopeyCursor" -> RopeyCursor_advance(self)

Backtrack(k, self) ==
    CASE k = "Slice" -> Slice_backtrack(self)
      [] k = "Str" -> Str_backtrack(self)
      [] k = "Bytes" -> Bytes_backtrack(self)
      [] k = "Utf8Bytes" -> Utf8Bytes_backtrack(self)
      [] k = "RopeyCursor" -> RopeyCursor_backtrack(self)

(* ------------------- impl Cursor for &mut C ------------------------- *)

\* Each takes the referenced cursor (of variant k) and gives what the
\* call through the reference returns and leaves in the referenced cursor.

RefMut_chunk(k, self) == Chunk(k, self)

RefMut_utf8_aware(k, self) == Utf8Aware(k, self)

\* Variant: advance() through the reference forwards to backtrack().
RefMut_advance_Backtracks(k, self) == Backtrack(k, self)

RefMut_advance(k, self) == Advance(k, self)

RefMut_backtrack(k, self) == Backtrack(k, self)

(* --------------------------- IntoCursor ----------------------------- *)

\* impl<C: Cursor> IntoCursor for C
IntoCursor_into_cursor(self) == self

\* impl IntoCursor for ropey::iter::Chunks
Chunks_into_cursor(it) == RopeyCursor_new(it)

(* ------------------------------ state ------------------------------- *)

\* A cursor right after construction.  `at` is the index in iter.items of
\* the chunk `current` was taken from (0: taken from no item); `input` is
\* what the cursor was built from; `calls` is the record of the traversal
\* calls made so far; `viaRef` is a copy of the cursor, converted by the
\* identity into_cursor(), that receives every call through a &mut.
Init ==
    /\ calls = <<>>
    /\ \/ /\ kind = "Slice"
          /\ slice \in SeqsUpTo({97, 195, 169}, MaxLen)
          /\ input = slice
          /\ iter = NoIter /\ current = <<>> /\ pos = "ChunkEnd" /\ at = 0
       \/ /\ kind = "Str"
          /\ slice \in SeqsUpTo({97, 233}, MaxLen)
          /\ input = slice
          /\ iter = NoIter /\ current = <<>> /\ pos = "ChunkEnd" /\ at = 0
       \/ /\ kind = "Bytes"
          /\ slice = <<>>
          /\ iter \in [items : SeqsUpTo(ByteChunks, MaxChunks),
                      idx : {0}, steps : {0}]
          /\ input = iter.items
          /\ current \in ByteChunks
          /\ pos = "ChunkEnd" /\ at = 0
       \/ /\ kind = "Utf8Bytes"
          /\ slice = <<>>
          /\ iter \in [items : SeqsUpTo(StrChunks, MaxChunks),
                      idx : {0}, steps : {0}]
          /\ input = iter.items
          /\ current \in {AsBytes(c) : c \in StrChunks}
          /\ pos = "ChunkEnd" /\ at = 0
       \/ /\ kind = "RopeyCursor"
          /\ \E items \in SeqsUpTo(StrChunks, MaxChunks) :
                LET c == Chunks_into_cursor([items |-> items, idx |-> 0,
                                             steps |-> 0])
                IN  /\ slice = c.slice /\ iter = c.iter
                    /\ current = c.current /\ pos = c.pos
                    /\ at = c.iter.idx
                    /\ input = items
    /\ viaRef = IntoCursor_into_cursor(Self)

\* The same call made through a &mut to the copy.
ThroughRef(k, op) ==
    IF op = "advance" THEN RefMut_advance(k, viaRef)
    ELSE RefMut_backtrack(k, viaRef)

\* One call of a traversal operation: r is its result on Self, found is
\* the index of the item a successful call took its chunk from, mid is the
\* cursor when the call's scan loop starts.
Call(k, op, r, found, mid) ==
    /\ kind = k
    /\ Len(calls) < MaxCalls
    /\ viaRef' = ThroughRef(k, op).self
    /\ slice' = r.self.slice
    /\ iter' = r.self.iter
    /\ current' = r.self.current
    /\ pos' = r.self.pos
    /\ at' = IF r.ret THEN found ELSE at
    /\ calls' = Append(calls, [op |-> op, ret |-> r.ret,
                               before |-> Chunk(k, Self),
                               after |-> Chunk(k, r.self),
                               iterBefore |-> iter,
                               iterAfter |-> r.self.iter,
                               iterMid |-> mid.iter,
                               posBefore |-> pos,
                               posAfter |-> r.self.pos,
                               refRet |-> ThroughRef(k, op).ret,
                               refAfter |->
                                   RefMut_chunk(k, ThroughRef(k, op).self),
                               atBefore |-> at,
                               atAfter |-> IF r.ret THEN found ELSE at])
    /\ UNCHANGED <<kind, input>>

SliceAdvance == Call("Slice", "advance", Slice_advance(Self), at, Self)

SliceBacktrack == Call("Slice", "backtrack", Slice_backtrack(Self), at, Self)

StrAdvance == Call("Str", "advance", Str_advance(Self), at, Self)

StrBacktrack == Call("Str", "backtrack", Str_backtrack(Self), at, Self)

BytesAdvance ==
    LET r == Bytes_advance(Self)
    IN  Call("Bytes", "advance", r, r.self.iter.idx, Self)

BytesBacktrack == Call("Bytes", "backtrack", Bytes_backtrack(Self), at, Self)

Utf8BytesAdvance ==
    LET r == Utf8Bytes_advance(Self)
    IN  Call("Utf8Bytes", "advance", r, r.self.iter.idx, Self)

Utf8BytesBacktrack ==
    Call("Utf8Bytes", "backtrack", Utf8Bytes_backtrack(Self), at, Self)

RopeyAdvance ==
    LET r == RopeyCursor_advance(Self)
    IN  Call("RopeyCursor", "advance", r, r.self.iter.idx,
             AdvanceRealign(Self))

RopeyBacktrack ==
    LET r == RopeyCursor_backtrack(Self)
    IN  Call("RopeyCursor", "backtrack", r, r.self.iter.idx + 1,
             BacktrackRealign(Self))

Next ==
    \/ SliceAdvance \/ SliceBacktrack
    \/ StrAdvance \/ StrBacktrack
    \/ BytesAdvance \/ BytesBacktrack
    \/ Utf8BytesAdvance \/ Utf8BytesBacktrack
    \/ RopeyAdvance \/ RopeyBacktrack

Spec == Init /\ [][Next]_vars

(* ============================ properties ============================ *)

IsRopey == kind = "RopeyCursor"

IsForwardOnly == kind \in {"Bytes", "Utf8Bytes"}

IsFlat == kind \in {"Slice", "Str"}

NCalls == Len(calls)

\* The chunk the cursor exposes in this state.
Exposed == Chunk(kind, Self)

\* The bytes of item i of the source the cursor was built from.
ItemBytes(i) == IF kind = "Bytes" THEN input[i] ELSE AsBytes(input[i])

AllNonEmpty == \A i \in 1..Len(input) : ~IsEmpty(input[i])

\* The first k calls are `first`, the following k calls are `second`.
KThenK(k, first, second) ==
    /\ NCalls >= k
    /\ NCalls <= 2 * k
    /\ \A i \in 1..NCalls : calls[i].op = (IF i <= k THEN first ELSE second)

\* C1: over a bidirectional source of at least two chunks, all non-empty, a
\* successful advance() directly followed by backtrack() (and a successful
\* backtrack() directly followed by advance()) makes the second call return
\* true and expose the chunk that was current before the first; and from
\* construction, k successful advance() calls followed by backtrack() calls
\* make each of those return true, the k-th leaving chunk() at the first
\* chunk.
C1_RoundTrip ==
    (IsRopey /\ Len(input) >= 2 /\ AllNonEmpty) =>
        /\ \A i \in 1..(NCalls - 1) :
              (calls[i].ret /\ calls[i + 1].op # calls[i].op) =>
                  /\ calls[i + 1].ret
                  /\ calls[i + 1].after = calls[i].before
                  /\ calls[i + 1].atAfter = calls[i].atBefore
        /\ \A k \in 1..MaxCalls :
              (/\ KThenK(k, "advance", "backtrack")
               /\ \A i \in 1..k : calls[i].ret) =>
                  /\ \A i \in (k + 1)..NCalls : calls[i].ret
                  /\ NCalls = 2 * k => (Exposed = ItemBytes(1) /\ at = 1)

\* C1 witness: three distinct non-empty chunks, advance twice, backtrack
\* twice, all four succeed, and the first chunk is exposed again.
C1_Witness ==
    /\ IsRopey /\ Len(input) = 3 /\ AllNonEmpty
    /\ input[1] # input[2] /\ input[2] # input[3] /\ input[1] # input[3]
    /\ NCalls = 4
    /\ KThenK(2, "advance", "backtrack")
    /\ \A i \in 1..4 : calls[i].ret
    /\ Exposed = ItemBytes(1)

\* Index of the nearest non-empty item strictly after / before item i
\* (0 when there is none).
NearestAfter(i) ==
    LET later == {j \in (i + 1)..Len(input) : ~IsEmpty(input[j])}
    IN  IF later = {} THEN 0 ELSE CHOOSE j \in later : \A m \in later : j <= m

NearestBefore(i) ==
    LET earlier == {j \in 1..(i - 1) : ~IsEmpty(input[j])}
    IN  IF earlier = {} THEN 0 ELSE CHOOSE j \in earlier : \A m \in earlier : j >= m

\* C2: over any chunk sequence (empty chunks anywhere), every advance()
\* returns true and exposes the nearest non-empty chunk strictly after the
\* exposed one when there is such a chunk and returns false otherwise, and
\* every backtrack() does the same towards the front.
C2_NearestNonEmpty ==
    IsRopey =>
        \A i \in 1..NCalls :
            LET c == calls[i]
                target == IF c.op = "advance" THEN NearestAfter(c.atBefore)
                          ELSE NearestBefore(c.atBefore)
            IN  /\ c.ret = (target # 0)
                /\ c.ret => (c.atAfter = target /\ c.after = ItemBytes(target))

\* C3: a successful advance() or backtrack() of Bytes, Utf8Bytes or
\* RopeyCursor leaves a non-empty chunk exposed, so an empty chunk is
\* exposed only while no traversal call has succeeded yet.
C3_NonEmptyAfterSuccess ==
    (IsForwardOnly \/ IsRopey) =>
        /\ \A i \in 1..NCalls : calls[i].ret => ~IsEmpty(calls[i].after)
        /\ IsEmpty(Exposed) => \A i \in 1..NCalls : ~calls[i].ret

\* C3 witness: a rope cursor has stepped over an empty chunk in each
\* direction with a successful call.
C3_Witness ==
    /\ IsRopey
    /\ \E i \in 1..NCalls :
          /\ calls[i].op = "advance" /\ calls[i].ret
          /\ calls[i].iterAfter.idx >= calls[i].iterBefore.idx + 2
    /\ \E i \in 1..NCalls :
          /\ calls[i].op = "backtrack" /\ calls[i].ret
          /\ calls[i].atAfter + 2 <= calls[i].atBefore

\* C4: once advance() of Bytes, Utf8Bytes or RopeyCursor has returned
\* false, a directly following advance() returns false too; once
\* backtrack() of RopeyCursor has returned false, a directly following
\* backtrack() returns false too.
C4_ExhaustionStable ==
    \A i \in 1..(NCalls - 1) :
        (/\ calls[i + 1].op = calls[i].op
         /\ ~calls[i].ret
         /\ \/ calls[i].op = "advance" /\ (IsForwardOnly \/ IsRopey)
            \/ calls[i].op = "backtrack" /\ IsRopey) =>
            ~calls[i + 1].ret

\* C4 witness: a rope cursor that advanced to its end, was refused twice
\* there, went back to its start and was refused twice there as well.
C4_Witness ==
    /\ IsRopey /\ NCalls = 6
    /\ calls[1].op = "advance" /\ calls[1].ret
    /\ calls[2].op = "advance" /\ ~calls[2].ret
    /\ calls[3].op = "advance" /\ ~calls[3].ret
    /\ calls[4].op = "backtrack" /\ calls[4].ret
    /\ calls[5].op = "backtrack" /\ ~calls[5].ret
    /\ calls[6].op = "backtrack" /\ ~calls[6].ret

\* The advance() calls made so far, in order.
Advances == SelectSeq(calls, LAMBDA c : c.op = "advance")

\* The indices of the non-empty items of the source, in order.
RECURSIVE NonEmptyFrom(_)
NonEmptyFrom(i) ==
    IF i > Len(input) THEN <<>>
    ELSE IF IsEmpty(input[i]) THEN NonEmptyFrom(i + 1)
    ELSE <<i>> \o NonEmptyFrom(i + 1)

\* C5: for Bytes and Utf8Bytes over an iterator that is to yield the items
\* s, the j-th advance() returns true exactly when s has at least j
\* non-empty items, and then exposes the j-th non-empty item of s.
C5_ForwardSkipsEmpty ==
    IsForwardOnly =>
        LET nonEmpty == NonEmptyFrom(1)
        IN  \A j \in 1..Len(Advances) :
               /\ Advances[j].ret = (j <= Len(nonEmpty))
               /\ Advances[j].ret =>
                     /\ Advances[j].after = ItemBytes(nonEmpty[j])
                     /\ Advances[j].atAfter = nonEmpty[j]

\* C5 witness: a text-chunk cursor over ["", "", y] that exposed another
\* chunk before has advanced to y over the two empty items and was refused
\* then.
C5_Witness ==
    /\ kind = "Utf8Bytes" /\ Len(input) = 3
    /\ IsEmpty(input[1]) /\ IsEmpty(input[2]) /\ ~IsEmpty(input[3])
    /\ Len(Advances) = 2
    /\ Advances[1].ret /\ Advances[1].after = AsBytes(input[3])
    /\ Advances[1].before # Advances[1].after
    /\ ~Advances[2].ret

\* C6: backtrack() as the first call on a RopeyCursor returns false and
\* leaves the first chunk of the source exposed.
C6_InitialBacktrackFails ==
    (IsRopey /\ NCalls >= 1 /\ calls[1].op = "backtrack") =>
        /\ ~calls[1].ret
        /\ Len(input) >= 1 => calls[1].after = ItemBytes(1)
        /\ calls[1].after = calls[1].before

\* C6 witness: the first call on a cursor over several non-empty chunks
\* was a backtrack().
C6_Witness ==
    /\ IsRopey /\ Len(input) >= 2 /\ AllNonEmpty
    /\ NCalls = 1 /\ calls[1].op = "backtrack"
    /\ Exposed = ItemBytes(1)

\* C7: a RopeyCursor over a source with no chunks exposes the empty chunk,
\* and every advance() and backtrack() on it, in any order, returns false
\* and leaves the empty chunk exposed.
C7_EmptyRope ==
    (IsRopey /\ Len(input) = 0) =>
        /\ IsEmpty(Exposed)
        /\ \A i \in 1..NCalls :
              ~calls[i].ret /\ IsEmpty(calls[i].before) /\ IsEmpty(calls[i].after)

\* C7 witness: both calls were made, in both orders, on the empty rope.
C7_Witness ==
    /\ IsRopey /\ Len(input) = 0 /\ NCalls >= 4
    /\ calls[1].op = "advance" /\ calls[2].op = "backtrack"
    /\ calls[3].op = "backtrack" /\ calls[4].op = "advance"

\* C8: backtrack() of Bytes and Utf8Bytes returns false in every state and
\* changes neither the exposed chunk nor the items the iterator has left.
C8_ForwardOnlyBacktrack ==
    IsForwardOnly =>
        \A i \in 1..NCalls :
            calls[i].op = "backtrack" =>
                /\ ~calls[i].ret
                /\ calls[i].after = calls[i].before
                /\ calls[i].iterAfter = calls[i].iterBefore

\* C8 witness: backtrack() was called on a Bytes cursor before any
\* advance(), after a successful advance() with items left, and after a
\* refused advance().
C8_Witness ==
    /\ kind = "Bytes" /\ NCalls >= 6
    /\ calls[1].op = "backtrack"
    /\ calls[2].op = "advance" /\ calls[2].ret
    /\ calls[2].iterAfter.idx < Len(input)
    /\ ~IsEmpty(input[Len(input)])
    /\ calls[3].op = "backtrack"
    /\ \E i \in 4..(NCalls - 1) :
          calls[i].op = "advance" /\ ~calls[i].ret /\ calls[i + 1].op = "backtrack"

\* The bytes of the buffer a flat cursor was built from.
InputBytes == IF kind = "Str" THEN AsBytes(input) ELSE input

\* C9: on the flat buffers &[u8] and &str every advance() and backtrack()
\* returns false and chunk() is always the whole original buffer.
C9_FlatBuffer ==
    IsFlat =>
        /\ Exposed = InputBytes
        /\ \A i \in 1..NCalls :
              ~calls[i].ret /\ calls[i].before = InputBytes /\ calls[i].after = InputBytes

\* C9 witness: a &str holding a two-byte scalar value after calls of both
\* kinds.
C9_Witness ==
    /\ kind = "Str" /\ Len(input) = 2 /\ Len(Exposed) = 3
    /\ NCalls >= 2
    /\ \E i, j \in 1..NCalls : calls[i].op = "advance" /\ calls[j].op = "backtrack"

\* C10: utf8_aware() is false for Bytes and true for Utf8Bytes,
\* RopeyCursor, &[u8] and &str in every reachable state.
C10_Utf8AwareFixed ==
    Utf8Aware(kind, Self) = (kind # "Bytes")

\* C10 witness: a Bytes cursor after a successful and a refused advance().
C10_Witness ==
    /\ kind = "Bytes" /\ ~Utf8Aware(kind, Self)
    /\ \E i, j \in 1..NCalls : calls[i].ret /\ ~calls[j].ret /\ calls[j].op = "advance"


\* C11: a refused advance() or backtrack() of Bytes, Utf8Bytes or
\* RopeyCursor leaves chunk() exactly as it was before the call, also when
\* the call pulled empty items or took a realigning step.
C11_FailureKeepsChunk ==
    (IsForwardOnly \/ IsRopey) =>
        \A i \in 1..NCalls : ~calls[i].ret => calls[i].after = calls[i].before

\* C11 witness: a rope cursor exposing a non-empty chunk was refused a
\* backtrack() that realigned and pulled an empty chunk, and a text-chunk
\* refusal of advance() that pulled an empty chunk happened as well.
C11_Witness ==
    /\ IsRopey
    /\ \E i \in 1..NCalls :
          /\ calls[i].op = "backtrack" /\ ~calls[i].ret
          /\ calls[i].posBefore = "ChunkEnd"
          /\ calls[i].iterBefore.idx >= calls[i].iterAfter.idx + 2
          /\ ~IsEmpty(calls[i].before)
    /\ \E i \in 1..NCalls :
          /\ calls[i].op = "advance" /\ ~calls[i].ret
          /\ calls[i].iterAfter.idx > calls[i].iterBefore.idx
          /\ ~IsEmpty(calls[i].before)


\* C12: a cursor driven through &mut C behaves as the cursor driven
\* directly: every advance() and backtrack() returns the same value and
\* exposes the same chunk, chunk() and utf8_aware() agree in every state,
\* and the referenced cursor (handed over by the identity into_cursor())
\* is in the same state as the directly driven one.
C12_RefForwarding ==
    /\ viaRef = Self
    /\ RefMut_chunk(kind, viaRef) = Chunk(kind, Self)
    /\ RefMut_utf8_aware(kind, viaRef) = Utf8Aware(kind, Self)
    /\ \A i \in 1..NCalls :
          /\ calls[i].refRet = calls[i].ret
          /\ calls[i].refAfter = calls[i].after

\* C12 witness: a rope cursor and its referenced copy after a successful
\* advance(), a successful backtrack() and a refused call.
C12_Witness ==
    /\ IsRopey /\ viaRef = Self
    /\ \E i, j, m \in 1..NCalls :
          /\ calls[i].op = "advance" /\ calls[i].ret /\ calls[i].refRet
          /\ calls[j].op = "backtrack" /\ calls[j].ret /\ calls[j].refRet
          /\ ~calls[m].ret /\ ~calls[m].refRet


\* The marker value that stands for the direction of a call.
MarkerOf(op) == IF op = "advance" THEN "ChunkEnd" ELSE "ChunkStart"

\* C13: the marker of a RopeyCursor is ChunkEnd at construction, ChunkEnd
\* after every advance() and ChunkStart after every backtrack(), whatever
\* the call returned; and a call takes the one realigning iterator step
\* (next() in advance, prev() in backtrack) before its scan exactly when
\* its direction differs from the marker, that is from the previous call's
\* direction.
C13_MarkerTracksDirection ==
    IsRopey =>
        /\ pos = (IF NCalls = 0 THEN "ChunkEnd" ELSE MarkerOf(calls[NCalls].op))
        /\ \A i \in 1..NCalls :
              LET c == calls[i]
                  last == IF i = 1 THEN "ChunkEnd" ELSE MarkerOf(calls[i - 1].op)
                  turned == MarkerOf(c.op) # last
                  n == Len(c.iterBefore.items)
              IN  /\ c.posBefore = last
                  /\ c.posAfter = MarkerOf(c.op)
                  /\ c.iterMid.steps = c.iterBefore.steps + (IF turned THEN 1 ELSE 0)
                  /\ c.iterMid.idx =
                        IF ~turned THEN c.iterBefore.idx
                        ELSE IF c.op = "advance"
                             THEN (IF c.iterBefore.idx < n
                                   THEN c.iterBefore.idx + 1 ELSE n)
                             ELSE (IF c.iterBefore.idx > 0
                                   THEN c.iterBefore.idx - 1 ELSE 0)

\* C13 witness: a rope cursor was turned around twice, with repeated and
\* refused calls in between.
C13_Witness ==
    /\ IsRopey /\ NCalls = 6
    /\ calls[1].op = "advance" /\ calls[1].ret
    /\ calls[2].op = "backtrack" /\ calls[2].ret
    /\ calls[3].op = "backtrack" /\ ~calls[3].ret
    /\ calls[4].op = "advance" /\ calls[4].ret
    /\ calls[5].op = "advance"
    /\ calls[6].op = "backtrack"
    /\ pos = "ChunkStart"


\* C14: over a source of one or more chunks, all non-empty, the iterator of
\* a RopeyCursor stands immediately after the exposed chunk while the
\* marker is ChunkEnd and immediately before it while the marker is
\* ChunkStart (`at` counts chunks from 1, iter.idx is the number of chunks
\* before the iterator's position).
C14_MarkerAlignment ==
    (IsRopey /\ Len(input) >= 1 /\ AllNonEmpty) =>
        /\ at \in 1..Len(input)
        /\ current = ItemBytes(at)
        /\ iter.idx = (IF pos = "ChunkEnd" THEN at ELSE at - 1)

\* C14 witness: a cursor over non-empty chunks was refused at the end and
\* at the start of its source and then stands on an inner chunk with the
\* marker at ChunkStart.
C14_Witness ==
    /\ IsRopey /\ Len(input) >= 3 /\ AllNonEmpty
    /\ \E i, j \in 1..NCalls :
          /\ calls[i].op = "advance" /\ ~calls[i].ret
          /\ calls[j].op = "backtrack" /\ ~calls[j].ret
    /\ pos = "ChunkStart" /\ at = 2 /\ iter.idx = 1


\* What a consumer sees when making the calls `ops` on a RopeyCursor in
\* state `self`: the value each call returns and the chunk exposed after it.
RECURSIVE Observe(_, _)
Observe(self, ops) ==
    IF ops = <<>> THEN <<>>
    ELSE LET r == Backtrack("RopeyCursor", self)
             a == Advance("RopeyCursor", self)
             res == IF Head(ops) = "advance" THEN a ELSE r
         IN  <<[ret |-> res.ret, chunk |-> RopeyCursor_chunk(res.self)]>>
                 \o Observe(res.self, Tail(ops))

\* The RopeyCursor before and after the i-th call.
CursorBefore(i) ==
    [slice |-> <<>>, iter |-> calls[i].iterBefore,
     current |-> calls[i].before, pos |-> calls[i].posBefore]

CursorAfter(i) ==
    [slice |-> <<>>, iter |-> calls[i].iterAfter,
     current |-> calls[i].after, pos |-> calls[i].posAfter]

\* C15: a refused advance() or backtrack() of a RopeyCursor cannot be
\* observed afterwards: every following sequence of calls returns the same
\* values and exposes the same chunks as it would have without the refused
\* call.
C15_FailedStepUnobservable ==
    IsRopey =>
        \A i \in 1..NCalls :
            ~calls[i].ret =>
                \A ops \in SeqsUpTo({"advance", "backtrack"}, MaxFollowing) :
                    Observe(CursorAfter(i), ops) = Observe(CursorBefore(i), ops)


\* Number of non-empty items of the source.
NonEmptyCount == Len(NonEmptyFrom(1))

\* The scan loop of the i-th call makes at most one iterator step per chunk
\* left in its direction, plus the one that finds the iterator exhausted.
ScanBounded(i) ==
    LET c == calls[i]
        left == IF c.op = "advance" THEN Len(c.iterMid.items) - c.iterMid.idx
                ELSE c.iterMid.idx
    IN  /\ c.iterAfter.steps - c.iterMid.steps <= left + 1
        /\ c.iterMid.steps - c.iterBefore.steps <= 1

\* Calls i..j are one operation repeated, each returning true.
TrueRun(i, j) ==
    \A m \in i..j : calls[m].op = calls[i].op /\ calls[m].ret

AdvanceRefused == \E i \in 1..NCalls : calls[i].op = "advance" /\ ~calls[i].ret

BacktrackRefused == \E i \in 1..NCalls : calls[i].op = "backtrack" /\ ~calls[i].ret

\* A consumer that scans a source to its end and, on a RopeyCursor, back to
\* its start: it repeats advance() until refused, then backtrack() until
\* refused.  Each call is a finite computation, so a call that is due is
\* eventually made.
DrainAdvance ==
    /\ ~AdvanceRefused
    /\ BytesAdvance \/ Utf8BytesAdvance \/ RopeyAdvance

DrainBacktrack ==
    /\ AdvanceRefused /\ ~BacktrackRefused
    /\ RopeyBacktrack

DrainNext == DrainAdvance \/ DrainBacktrack

DrainSpec == Init /\ [][DrainNext]_vars /\ WF_vars(DrainNext)

\* C16: for Bytes, Utf8Bytes and RopeyCursor every call ends within the
\* step bound of its scan loop; a run of advance() calls (and, on a
\* RopeyCursor, of backtrack() calls) holds at most as many true results as
\* the source has non-empty chunks; a consumer that keeps calling advance()
\* from construction eventually receives false, and one that then keeps
\* calling backtrack() on a RopeyCursor eventually receives false too.
C16_EventualExhaustion ==
    /\ []((IsForwardOnly \/ IsRopey) =>
            /\ \A i \in 1..NCalls : ScanBounded(i)
            /\ \A i \in 1..NCalls : \A j \in i..NCalls :
                  TrueRun(i, j) => j - i + 1 <= NonEmptyCount)
    /\ <>(IsFlat \/ AdvanceRefused)
    /\ <>(~IsRopey \/ BacktrackRefused)

\* C16 witness: a rope cursor over MaxChunks non-empty chunks was advanced
\* to the end of its source and refused there, then taken back to the
\* start and refused there.
C16_Witness ==
    /\ IsRopey /\ Len(input) = MaxChunks /\ AllNonEmpty
    /\ NCalls = 2 * MaxChunks
    /\ TrueRun(1, MaxChunks - 1)
    /\ calls[MaxChunks].op = "advance" /\ ~calls[MaxChunks].ret
    /\ TrueRun(MaxChunks + 1, NCalls - 1)
    /\ calls[NCalls].op = "backtrack" /\ ~calls[NCalls].ret

====
